---- MODULE Spec2Model ----
(***************************************************************************)
(* Model of context-gen's RepoContextGenerator (main.ts).                  *)
(*                                                                         *)
(* generate() is an async method: every `await` is a point where the       *)
(* environment (git, file, the filesystem) answers.  Each action below is  *)
(* one awaited operation together with the synchronous code that follows   *)
(* it up to the next await.  The answers of the environment are drawn      *)
(* from small sets with \E.                                                *)
(*                                                                         *)
(* Text is modelled as sequences of one-character strings so that trim(),  *)
(* split(), toLowerCase() and includes() are computed, not assumed.        *)
(* Timestamps and the generator version string are left out of the blocks. *)
(*                                                                         *)
(* Faults are drawn for every operation the code handles: the repository   *)
(* check, the two metadata queries, git ls-files, and inside the loop      *)
(* lstat, file, readTextFile and the appending write.  The header write    *)
(* (line 157) and the summary write (line 202) have no handler and are     *)
(* taken to succeed.                                                       *)
(***************************************************************************)
EXTENDS Integers, Sequences, FiniteSets, TLC

VARIABLES
  pc,          \* position of generate() / main()
  exitCode,    \* process exit code, -1 while running
  outputFile,  \* this.outputFile, as the absolute path it resolves to
  sink,        \* the file at outputFile: [exists, blocks]
  stats,       \* this.stats
  repoRoot,    \* this.repoRoot
  info,        \* const { root, branch } of generate()
  rootCmd,     \* promise of `git rev-parse --show-toplevel`
  branchCmd,   \* promise of `git branch --show-current`
  files,       \* const files of generate()
  idx,         \* position of the for..of loop (1-based), 0 before the loop
  content,     \* const content of the loop body (<<>> when unset)
  console,     \* lines printed by console.log / console.error
  io           \* external operations performed so far, in order

vars == <<pc, exitCode, outputFile, sink, stats, repoRoot, info, rootCmd,
          branchCmd, files, idx, content, console, io>>

(***************************************************************************)
(* Bounds and input sets.                                                  *)
(***************************************************************************)
MaxFiles == 2

\* repository-relative paths git may list
PathNames == { <<"a">>, <<"o">> }

\* stdout of `git rev-parse --show-toplevel`
RootStdouts == { <<"/", "r", "\n">>, <<" ", "/", "r", "\n">> }

\* stdout of `git branch --show-current` (empty on a detached HEAD)
BranchStdouts == { <<"m", "\n">>, <<>> }

\* where the -o argument may point: a tracked path of the repository, or outside
OutputFiles == { <<"/", "r", "/", "o">>, <<"/", "t", "/", "o">> }

\* stdout of `file <path>`
Descriptions ==
  { <<"A", "S", "C", "I", "I", " ", "t", "e", "x", "t">>,
    <<"U", "T", "F", " ", "T", "E", "X", "T">>,
    <<"e", "m", "p", "t", "y">>,
    <<"d", "a", "t", "a">>,
    <<"t", "e", "x">> }

(***************************************************************************)
(* String helpers of the JavaScript runtime.                               *)
(***************************************************************************)
Whitespace == { " ", "\n", "\t" }

RECURSIVE TrimStart(_)
TrimStart(s) ==
  IF s # <<>> /\ Head(s) \in Whitespace THEN TrimStart(Tail(s)) ELSE s

RECURSIVE TrimEnd(_)
TrimEnd(s) ==
  IF s # <<>> /\ s[Len(s)] \in Whitespace
  THEN TrimEnd(SubSeq(s, 1, Len(s) - 1))
  ELSE s

Trim(s) == TrimEnd(TrimStart(s))

LowerOf(c) ==
  CASE c = "A" -> "a" [] c = "C" -> "c" [] c = "E" -> "e" [] c = "F" -> "f"
    [] c = "I" -> "i" [] c = "S" -> "s" [] c = "T" -> "t" [] c = "U" -> "u"
    [] c = "X" -> "x" [] OTHER -> c

ToLowerCase(s) == [k \in 1..Len(s) |-> LowerOf(s[k])]

Includes(s, sub) ==
  \E k \in 1..(Len(s) - Len(sub) + 1) : SubSeq(s, k, k + Len(sub) - 1) = sub

\* s.split("\n")
RECURSIVE SplitFrom(_, _)
SplitFrom(s, cur) ==
  IF s = <<>> THEN <<cur>>
  ELSE IF Head(s) = "\n" THEN <<cur>> \o SplitFrom(Tail(s), <<>>)
  ELSE SplitFrom(Tail(s), Append(cur, Head(s)))

Split(s) == SplitFrom(s, <<>>)

\* join(a, b) of @std/path for an absolute a and a plain relative b
join(a, b) == a \o <<"/">> \o b

(***************************************************************************)
(* Blocks of the output document and records of the traces.               *)
(***************************************************************************)
Blk(kind, path, body, root, branch, p, s) ==
  [kind |-> kind, path |-> path, body |-> body, root |-> root,
   branch |-> branch, processed |-> p, skipped |-> s]

\* what the output file holds before the run, when it exists
OldBlk == Blk("old", <<>>, <<>>, <<>>, <<>>, 0, 0)

\* the text of an ordinary tracked file
TextOf(path) == Blk("text", path, <<>>, <<>>, <<>>, 0, 0)

Op(op, i, res, target) == [op |-> op, i |-> i, res |-> res, target |-> target]

Line(kind, path) == [kind |-> kind, path |-> path]

(***************************************************************************)
(* The methods of RepoContextGenerator that compute a value.              *)
(***************************************************************************)
\* checkGitRepo: r is "zero" / "nonzero" exit of git, or "throw" when the
\* command cannot be spawned
checkGitRepo_catchTrue(r) ==
  IF r = "throw" THEN TRUE ELSE r = "zero"

checkGitRepo(r) ==
  IF r = "throw" THEN FALSE ELSE r = "zero"

\* getRepoInfo's return value from the two resolved outputs of Promise.all
RepoInfo_swapped(rootOutput, branchOutput) ==
  [root |-> Trim(branchOutput), branch |-> Trim(rootOutput)]

RepoInfo(rootOutput, branchOutput) ==
  [root |-> Trim(rootOutput), branch |-> Trim(branchOutput)]

\* getTrackedFiles: r.kind is "ok" (exit 0, r.stdout), "nonzero" or "notfound"
getTrackedFiles_swallow(r) ==
  IF r.kind = "ok"
  THEN [ok |-> TRUE,
        files |-> SelectSeq(Split(r.stdout), LAMBDA line : Trim(line) # <<>>)]
  ELSE [ok |-> TRUE, files |-> <<>>]

getTrackedFiles(r) ==
  IF r.kind = "ok"
  THEN [ok |-> TRUE,
        files |-> SelectSeq(Split(r.stdout), LAMBDA line : Trim(line) # <<>>)]
  ELSE [ok |-> FALSE, files |-> <<>>]

\* isBinaryFile: r.threw when `file` cannot be run, else r.stdout
isBinaryFile_failOpen(r) ==
  IF r.threw THEN FALSE
  ELSE /\ ~Includes(ToLowerCase(r.stdout), <<"t", "e", "x", "t">>)
       /\ ~Includes(ToLowerCase(r.stdout), <<"e", "m", "p", "t", "y">>)

isBinaryFile(r) ==
  IF r.threw THEN TRUE
  ELSE /\ ~Includes(ToLowerCase(r.stdout), <<"t", "e", "x", "t">>)
       /\ ~Includes(ToLowerCase(r.stdout), <<"e", "m", "p", "t", "y">>)

\* formatFileContent's template around the text read
formatFileContent(relativePath, text) ==
  Blk("file", relativePath, text, <<>>, <<>>, 0, 0)

header(root, branch) == Blk("header", <<>>, <<>>, root, branch, 0, 0)

summary(st) == Blk("summary", <<>>, <<>>, <<>>, <<>>, st.processed, st.skipped)

\* Deno.writeTextFile(path, data, { append })
writeTextFile_truncate(f, data, append) ==
  [exists |-> TRUE, blocks |-> <<data>>]

writeTextFile(f, data, append) ==
  [exists |-> TRUE,
   blocks |-> IF append /\ f.exists THEN Append(f.blocks, data) ELSE <<data>>]

\* Deno.readTextFile(fullPath): the output file is a file of the filesystem
\* like any other
readTextFile(fullPath) ==
  IF fullPath = outputFile THEN sink.blocks
  ELSE <<TextOf(fullPath)>>

\* the catch clause of the loop body: the new stats and the line logged.
\* Nothing is rethrown by the clause; the field is there for the variants.
catch_countAll(err, st, relativePath) ==
  [stats |-> [st EXCEPT !.skipped = @ + 1],
   line |-> IF err = "NotFound"
            THEN Line("Skipped missing file", relativePath)
            ELSE Line("Error processing", relativePath),
   rethrow |-> FALSE]

catch_neverCount(err, st, relativePath) ==
  [stats |-> st,
   line |-> IF err = "NotFound"
            THEN Line("Skipped missing file", relativePath)
            ELSE Line("Error processing", relativePath),
   rethrow |-> FALSE]

catch_rethrow(err, st, relativePath) ==
  IF err = "NotFound"
  THEN [stats |-> [st EXCEPT !.skipped = @ + 1],
        line |-> Line("Skipped missing file", relativePath),
        rethrow |-> FALSE]
  ELSE [stats |-> st,
        line |-> Line("Error processing", relativePath),
        rethrow |-> TRUE]

catch(err, st, relativePath) ==
  IF err = "NotFound"
  THEN [stats |-> [st EXCEPT !.skipped = @ + 1],
        line |-> Line("Skipped missing file", relativePath),
        rethrow |-> FALSE]
  ELSE [stats |-> st,
        line |-> Line("Error processing", relativePath),
        rethrow |-> FALSE]

(***************************************************************************)
(* Initial state: a constructed RepoContextGenerator, generate() not yet   *)
(* started.  The output file may or may not exist from an earlier run.     *)
(***************************************************************************)
NoCmd == [st |-> "idle", stdout |-> <<>>]

Init ==
  /\ pc = "checkGitRepo"
  /\ exitCode = -1
  /\ outputFile \in OutputFiles
  /\ sink \in { [exists |-> FALSE, blocks |-> <<>>],
                [exists |-> TRUE, blocks |-> <<OldBlk>>] }
  /\ stats = [processed |-> 0, skipped |-> 0]
  /\ repoRoot = <<>>
  /\ info = [root |-> <<>>, branch |-> <<>>]
  /\ rootCmd = NoCmd
  /\ branchCmd = NoCmd
  /\ files = <<>>
  /\ idx = 0
  /\ content = <<>>
  /\ console = <<>>
  /\ io = <<>>

NoTarget == <<>>

relativePath == files[idx]

fullPath == join(repoRoot, relativePath)

(***************************************************************************)
(* generate(), lines 138-141: the repository check.  On success the two    *)
(* commands of getRepoInfo's Promise.all are started.                      *)
(***************************************************************************)
CheckGitRepo ==
  /\ pc = "checkGitRepo"
  /\ \E r \in {"zero", "nonzero", "throw"} :
       /\ io' = Append(io, Op("git rev-parse --git-dir", 0, r, NoTarget))
       /\ IF checkGitRepo(r)
          THEN /\ pc' = "getRepoInfo"
               /\ rootCmd' = [st |-> "running", stdout |-> <<>>]
               /\ branchCmd' = [st |-> "running", stdout |-> <<>>]
               /\ UNCHANGED <<console, exitCode>>
          ELSE /\ console' = Append(console, Line("Error: Not a git repository", <<>>))
               /\ exitCode' = 1
               /\ pc' = "exited"
               /\ UNCHANGED <<rootCmd, branchCmd>>
  /\ UNCHANGED <<outputFile, sink, stats, repoRoot, info, files, idx, content>>

(***************************************************************************)
(* getRepoInfo, lines 59-68: the two commands complete in either order;    *)
(* each resolves with its stdout or rejects.                               *)
(***************************************************************************)
RootCompletes ==
  /\ pc = "getRepoInfo"
  /\ rootCmd.st = "running"
  /\ \/ \E o \in RootStdouts :
          /\ rootCmd' = [st |-> "resolved", stdout |-> o]
          /\ io' = Append(io, Op("git rev-parse --show-toplevel", 0, "ok", NoTarget))
     \/ /\ rootCmd' = [st |-> "rejected", stdout |-> <<>>]
        /\ io' = Append(io, Op("git rev-parse --show-toplevel", 0, "throw", NoTarget))
  /\ UNCHANGED <<pc, exitCode, outputFile, sink, stats, repoRoot, info,
                 branchCmd, files, idx, content, console>>

BranchCompletes ==
  /\ pc = "getRepoInfo"
  /\ branchCmd.st = "running"
  /\ \/ \E o \in BranchStdouts :
          /\ branchCmd' = [st |-> "resolved", stdout |-> o]
          /\ io' = Append(io, Op("git branch --show-current", 0, "ok", NoTarget))
     \/ /\ branchCmd' = [st |-> "rejected", stdout |-> <<>>]
        /\ io' = Append(io, Op("git branch --show-current", 0, "throw", NoTarget))
  /\ UNCHANGED <<pc, exitCode, outputFile, sink, stats, repoRoot, info,
                 rootCmd, files, idx, content, console>>

\* lines 70-73 and 143-147: Promise.all resolved
GetRepoInfoReturn ==
  /\ pc = "getRepoInfo"
  /\ rootCmd.st = "resolved"
  /\ branchCmd.st = "resolved"
  /\ info' = RepoInfo(rootCmd.stdout, branchCmd.stdout)
  /\ repoRoot' = info'.root
  /\ console' = Append(console, Line("Generating repository context", <<>>))
  /\ pc' = "writeHeader"
  /\ UNCHANGED <<exitCode, outputFile, sink, stats, rootCmd, branchCmd,
                 files, idx, content, io>>

\* lines 74-78: Promise.all rejects as soon as one command rejects; the
\* error leaves generate() and main() uncaught
GetRepoInfoThrow ==
  /\ pc = "getRepoInfo"
  /\ rootCmd.st = "rejected" \/ branchCmd.st = "rejected"
  /\ pc' = "uncaught"
  /\ exitCode' = 1
  /\ UNCHANGED <<outputFile, sink, stats, repoRoot, info, rootCmd, branchCmd,
                 files, idx, content, console, io>>

\* lines 149-157: the truncating write of the header
WriteHeader ==
  /\ pc = "writeHeader"
  /\ sink' = writeTextFile(sink, header(info.root, info.branch), FALSE)
  /\ io' = Append(io, Op("write", 0, "ok", outputFile))
  /\ pc' = "getTrackedFiles"
  /\ UNCHANGED <<exitCode, outputFile, stats, repoRoot, info, rootCmd,
                 branchCmd, files, idx, content, console>>

(***************************************************************************)
(* line 159: git ls-files.  Its stdout is one line per listed path.        *)
(***************************************************************************)
RECURSIVE Listing(_)
Listing(names) ==
  IF names = <<>> THEN <<>>
  ELSE Head(names) \o <<"\n">> \o Listing(Tail(names))

NameLists == UNION { [1..n -> PathNames] : n \in 0..MaxFiles }

LsFilesResults ==
  { [kind |-> "ok", stdout |-> Listing(names)] : names \in NameLists }
    \cup { [kind |-> "nonzero", stdout |-> <<>>],
           [kind |-> "notfound", stdout |-> <<>>] }

GetTrackedFiles ==
  /\ pc = "getTrackedFiles"
  /\ \E r \in LsFilesResults :
       LET got == getTrackedFiles(r) IN
       /\ io' = Append(io, Op("git ls-files", 0, r.kind, NoTarget))
       /\ IF got.ok
          THEN /\ files' = got.files
               /\ idx' = 1
               /\ pc' = IF got.files = <<>> THEN "writeSummary" ELSE "lstat"
               /\ UNCHANGED exitCode
          ELSE /\ pc' = "uncaught"
               /\ exitCode' = 1
               /\ UNCHANGED <<files, idx>>
  /\ UNCHANGED <<outputFile, sink, stats, repoRoot, info, rootCmd, branchCmd,
                 content, console>>

(***************************************************************************)
(* The loop body, lines 160-192.                                           *)
(***************************************************************************)
\* `continue`, or the end of the loop body: on to the next path or past the loop
NextPath ==
  /\ idx' = idx + 1
  /\ content' = <<>>
  /\ pc' = IF idx + 1 > Len(files) THEN "writeSummary" ELSE "lstat"
  /\ UNCHANGED exitCode

\* lines 182-191: an error thrown inside the try block
Caught(err) ==
  LET c == catch(err, stats, relativePath) IN
  /\ stats' = c.stats
  /\ console' = Append(console, c.line)
  /\ IF c.rethrow
     THEN /\ pc' = "uncaught"
          /\ exitCode' = 1
          /\ UNCHANGED <<idx, content>>
     ELSE NextPath

\* what lstat, readTextFile and the appending writeTextFile may throw
Errors == {"NotFound", "Other"}

\* lines 164-170
Lstat_fallThrough ==
  /\ pc = "lstat"
  /\ \E r \in {"symlink", "file"} \cup Errors :
       /\ io' = Append(io, Op("lstat", idx, r, fullPath))
       /\ CASE r = "symlink" ->
                 /\ stats' = [stats EXCEPT !.skipped = @ + 1]
                 /\ console' = Append(console, Line("Skipped symlink", relativePath))
                 /\ pc' = "isBinaryFile"
                 /\ UNCHANGED <<idx, content, exitCode>>
            [] r = "file" ->
                 /\ pc' = "isBinaryFile"
                 /\ UNCHANGED <<stats, console, idx, content, exitCode>>
            [] OTHER -> Caught(r)
  /\ UNCHANGED <<outputFile, sink, repoRoot, info, rootCmd, branchCmd, files>>

Lstat ==
  /\ pc = "lstat"
  /\ \E r \in {"symlink", "file"} \cup Errors :
       /\ io' = Append(io, Op("lstat", idx, r, fullPath))
       /\ CASE r = "symlink" ->
                 /\ stats' = [stats EXCEPT !.skipped = @ + 1]
                 /\ console' = Append(console, Line("Skipped symlink", relativePath))
                 /\ NextPath
            [] r = "file" ->
                 /\ pc' = "isBinaryFile"
                 /\ UNCHANGED <<stats, console, idx, content, exitCode>>
            [] OTHER -> Caught(r)
  /\ UNCHANGED <<outputFile, sink, repoRoot, info, rootCmd, branchCmd, files>>

\* lines 172-176 with isBinaryFile, lines 110-127
FileResults ==
  { [threw |-> FALSE, stdout |-> d] : d \in Descriptions }
    \cup { [threw |-> TRUE, stdout |-> <<>>] }

IsBinaryFile ==
  /\ pc = "isBinaryFile"
  /\ \E r \in FileResults :
       LET logged == IF r.threw
                     THEN Append(console, Line("Error checking file type", fullPath))
                     ELSE console
       IN
       /\ io' = Append(io, Op("file", idx, IF r.threw THEN "throw" ELSE "ok", fullPath))
       /\ IF isBinaryFile(r)
          THEN /\ stats' = [stats EXCEPT !.skipped = @ + 1]
               /\ console' = Append(logged, Line("Skipped binary file", relativePath))
               /\ NextPath
          ELSE /\ console' = logged
               /\ pc' = "formatFileContent"
               /\ UNCHANGED <<stats, idx, content, exitCode>>
  /\ UNCHANGED <<outputFile, sink, repoRoot, info, rootCmd, branchCmd, files>>

\* line 178 with formatFileContent, lines 129-135
FormatFileContent ==
  /\ pc = "formatFileContent"
  /\ \E r \in {"ok"} \cup Errors :
       /\ io' = Append(io, Op("read", idx, r, fullPath))
       /\ IF r = "ok"
          THEN /\ content' = <<formatFileContent(relativePath, readTextFile(fullPath))>>
               /\ pc' = "append"
               /\ UNCHANGED <<stats, console, idx, exitCode>>
          ELSE Caught(r)
  /\ UNCHANGED <<outputFile, sink, repoRoot, info, rootCmd, branchCmd, files>>

\* lines 179-181
AppendSection ==
  /\ pc = "append"
  /\ \E r \in {"ok"} \cup Errors :
       /\ io' = Append(io, Op("write", idx, r, outputFile))
       /\ IF r = "ok"
          THEN /\ sink' = writeTextFile(sink, content[1], TRUE)
               /\ stats' = [stats EXCEPT !.processed = @ + 1]
               /\ console' = Append(console, Line("Processed", relativePath))
               /\ NextPath
          ELSE /\ Caught(r)
               /\ UNCHANGED sink
  /\ UNCHANGED <<outputFile, repoRoot, info, rootCmd, branchCmd, files>>

(***************************************************************************)
(* lines 194-207 and main(), lines 237-243.                                *)
(***************************************************************************)
WriteSummary ==
  /\ pc = "writeSummary"
  /\ sink' = writeTextFile(sink, summary(stats), TRUE)
  /\ io' = Append(io, Op("write", 0, "ok", outputFile))
  /\ pc' = "complete"
  /\ UNCHANGED <<exitCode, outputFile, stats, repoRoot, info, rootCmd,
                 branchCmd, files, idx, content, console>>

Complete ==
  /\ pc = "complete"
  /\ console' = Append(console, Line("Complete!", <<>>))
  /\ pc' = "done"
  /\ exitCode' = 0
  /\ UNCHANGED <<outputFile, sink, stats, repoRoot, info, rootCmd, branchCmd,
                 files, idx, content, io>>

Next ==
  \/ CheckGitRepo
  \/ RootCompletes
  \/ BranchCompletes
  \/ GetRepoInfoReturn
  \/ GetRepoInfoThrow
  \/ WriteHeader
  \/ GetTrackedFiles
  \/ Lstat
  \/ IsBinaryFile
  \/ FormatFileContent
  \/ AppendSection
  \/ WriteSummary
  \/ Complete

Spec == Init /\ [][Next]_vars

\* every awaited operation completes (a hang of the external tooling is excluded)
FairSpec == Spec /\ WF_vars(Next)

TypeOK ==
  /\ pc \in {"checkGitRepo", "getRepoInfo", "writeHeader", "getTrackedFiles",
             "lstat", "isBinaryFile", "formatFileContent", "append",
             "writeSummary", "complete", "done", "exited", "uncaught"}
  /\ exitCode \in {-1, 0, 1}
  /\ stats.processed \in 0..MaxFiles
  /\ stats.skipped \in 0..MaxFiles
  /\ idx \in 0..(MaxFiles + 1)
  /\ Len(content) \in {0, 1}

(***************************************************************************)
(* Vocabulary of the properties.                                           *)
(***************************************************************************)
IoSet == { io[k] : k \in 1..Len(io) }

\* the lines that end the visit of one path
OutcomeKinds ==
  { "Skipped symlink", "Skipped binary file", "Skipped missing file",
    "Processed", "Error processing" }

Outcomes == SelectSeq(console, LAMBDA l : l.kind \in OutcomeKinds)

\* number of paths whose visit has ended
Visited == IF idx = 0 THEN 0 ELSE idx - 1

PastLoop == pc \in {"writeSummary", "complete", "done"}

\* positions of the list whose section was appended / whose visit met an
\* error other than NotFound
AppendedIdx == { e.i : e \in { x \in IoSet : x.op = "write" /\ x.i > 0 /\ x.res = "ok" } }

ErroredIdx == { e.i : e \in { x \in IoSet : x.i > 0 /\ x.res = "Other" } }

\* the per-path operations the run performed at position i
OpsAt(i) == { e \in IoSet : e.i = i }

Sections == SelectSeq(sink.blocks, LAMBDA b : b.kind = "file")

\* the listed paths whose section was appended, in listing order
AppendedPaths ==
  LET positions == SelectSeq([k \in 1..Len(files) |-> k], LAMBDA k : k \in AppendedIdx)
  IN [n \in 1..Len(positions) |-> files[positions[n]]]

ListingOk == \E e \in IoSet : e.op = "git ls-files" /\ e.res = "ok"

(***************************************************************************)
(* C1: a completed run leaves the document as header, then one section per *)
(* processed path in the order of the tracked-file listing, then the       *)
(* summary; also when no file was processed.                               *)
(***************************************************************************)
C1_Ordering ==
  pc \in {"complete", "done"} =>
    /\ Len(sink.blocks) = Len(AppendedPaths) + 2
    /\ sink.blocks[1] = header(info.root, info.branch)
    /\ \A n \in 1..Len(AppendedPaths) :
         /\ sink.blocks[n + 1].kind = "file"
         /\ sink.blocks[n + 1].path = AppendedPaths[n]
    /\ sink.blocks[Len(sink.blocks)] = summary(stats)
    /\ Len(Outcomes) = Len(files)
    /\ \A k \in 1..Len(files) : Outcomes[k].path = files[k]

C1_Witness ==
  /\ pc = "done"
  /\ files = << <<"o">>, <<"a">> >>
  /\ AppendedIdx = {1, 2}
  /\ Len(sink.blocks) = 4

(***************************************************************************)
(* C2: in every state processed + skipped is the number of paths visited   *)
(* so far minus those that ended in an error (so at most the number        *)
(* visited), processed is the number of paths read and appended, and past  *)
(* the loop every listed path has been visited.  As this holds after every *)
(* single visit, no path moves the counters by more than one.              *)
(***************************************************************************)
C2_Counts ==
  /\ Len(Outcomes) = Visited
  /\ Visited <= Len(files)
  /\ ErroredIdx \subseteq 1..Visited
  /\ stats.processed + stats.skipped = Visited - Cardinality(ErroredIdx)
  /\ stats.processed + stats.skipped <= Visited
  /\ stats.processed = Cardinality(AppendedIdx)
  /\ PastLoop => Visited = Len(files)

C2_Witness ==
  /\ pc = "done"
  /\ Len(files) = 2
  /\ ErroredIdx = {1}
  /\ AppendedIdx = {2}
  /\ stats = [processed |-> 1, skipped |-> 0]

(***************************************************************************)
(* C4: when the repository check answers false (non-zero exit, or git      *)
(* cannot be run) the run ends with exit code 1 having done nothing else:  *)
(* no write to the output file, no metadata query, no listing, no per-file *)
(* step.                                                                   *)
(***************************************************************************)
C4_NotARepo ==
  (io # <<>> /\ io[1].res # "zero") =>
    /\ pc = "exited"
    /\ exitCode = 1
    /\ Len(io) = 1
    /\ sink \in { [exists |-> FALSE, blocks |-> <<>>],
                  [exists |-> TRUE, blocks |-> <<OldBlk>>] }
    /\ rootCmd.st = "idle" /\ branchCmd.st = "idle"
    /\ files = <<>> /\ idx = 0
    /\ stats = [processed |-> 0, skipped |-> 0]

C4_Witness ==
  /\ pc = "exited"
  /\ io[1].res = "throw"
  /\ sink = [exists |-> TRUE, blocks |-> <<OldBlk>>]

(***************************************************************************)
(* C7: when git ls-files fails (non-zero exit, or git not found) the run   *)
(* ends there with a non-zero exit: the output file holds exactly the      *)
(* header, nothing is appended afterwards and no counter has moved.        *)
(***************************************************************************)
C7_ListingFails ==
  \A k \in 1..Len(io) :
    (io[k].op = "git ls-files" /\ io[k].res # "ok") =>
      /\ k = Len(io)
      /\ pc = "uncaught"
      /\ exitCode = 1
      /\ sink = [exists |-> TRUE, blocks |-> <<header(info.root, info.branch)>>]
      /\ stats = [processed |-> 0, skipped |-> 0]
      /\ Outcomes = <<>>

C7_Witness ==
  /\ pc = "uncaught"
  /\ io[Len(io)].op = "git ls-files"
  /\ io[Len(io)].res = "notfound"
  /\ Len(sink.blocks) = 1

(***************************************************************************)
(* C3: the claim as stated.  Whenever readTextFile or the appending write  *)
(* of a path fails, with NotFound or with anything else, the catch clause  *)
(* logs an error, leaves both counters alone and goes on to the next path. *)
(***************************************************************************)
ReadOrAppendFails ==
  /\ pc \in {"formatFileContent", "append"}
  /\ Len(io') = Len(io) + 1
  /\ io'[Len(io')].res \in Errors

ContinuesWithNextPath ==
  /\ idx' = idx + 1
  /\ pc' = IF idx + 1 > Len(files) THEN "writeSummary" ELSE "lstat"
  /\ sink' = sink

C3_Original ==
  [][ReadOrAppendFails =>
       /\ console' = Append(console, Line("Error processing", relativePath))
       /\ stats' = stats
       /\ ContinuesWithNextPath]_vars

(***************************************************************************)
(* C3, amended: a failure other than NotFound is logged as an error and    *)
(* moves no counter; a NotFound failure (the file disappeared between      *)
(* classification and read) is logged as a skipped missing file and adds   *)
(* one to skipped.  Either way the loop goes on to the next path.          *)
(***************************************************************************)
C3_Amended ==
  [][ReadOrAppendFails =>
       /\ IF io'[Len(io')].res = "NotFound"
          THEN /\ console' = Append(console, Line("Skipped missing file", relativePath))
               /\ stats' = [stats EXCEPT !.skipped = @ + 1]
          ELSE /\ console' = Append(console, Line("Error processing", relativePath))
               /\ stats' = stats
       /\ ContinuesWithNextPath]_vars

C3_Witness ==
  /\ pc = "done"
  /\ \E e \in IoSet : e.op = "read" /\ e.i = 1 /\ e.res = "NotFound"
  /\ \E e \in IoSet : e.op = "write" /\ e.i = 2 /\ e.res = "Other"
  /\ stats = [processed |-> 0, skipped |-> 1]

(***************************************************************************)
(* C5: when the `file` command cannot be run for a path, the path is       *)
(* skipped as binary: skipped grows by one, processed and the output file  *)
(* stay as they are, the path is never read, and the run goes on to the    *)
(* next path.                                                              *)
(***************************************************************************)
ClassifierFails ==
  /\ pc = "isBinaryFile"
  /\ Len(io') = Len(io) + 1
  /\ io'[Len(io')].res = "throw"

C5_NeverRead ==
  \A e \in IoSet :
    (e.op = "file" /\ e.res = "throw") =>
      /\ ~ \E x \in OpsAt(e.i) : x.op \in {"read", "write"}
      /\ e.i \in 1..Visited
      /\ Outcomes[e.i] = Line("Skipped binary file", files[e.i])
      /\ pc # "uncaught"

C5_FailSafe ==
  /\ []C5_NeverRead
  /\ [][ClassifierFails =>
          /\ stats' = [stats EXCEPT !.skipped = @ + 1]
          /\ ContinuesWithNextPath]_vars

C5_Witness ==
  /\ pc = "done"
  /\ \E e \in IoSet : e.op = "file" /\ e.i = 1 /\ e.res = "throw"
  /\ AppendedIdx = {2}
  /\ stats = [processed |-> 1, skipped |-> 1]

(***************************************************************************)
(* C6: a path that lstat reports as a symbolic link is counted as skipped  *)
(* once; `file` is never run on it, it is never read and no section is     *)
(* appended for it.                                                        *)
(***************************************************************************)
LstatSeesSymlink ==
  /\ pc = "lstat"
  /\ Len(io') = Len(io) + 1
  /\ io'[Len(io')].res = "symlink"

C6_NeverProbed ==
  \A e \in IoSet :
    (e.op = "lstat" /\ e.res = "symlink") =>
      /\ OpsAt(e.i) = {e}
      /\ e.i \in 1..Visited
      /\ Outcomes[e.i] = Line("Skipped symlink", files[e.i])

C6_Symlink ==
  /\ []C6_NeverProbed
  /\ [][LstatSeesSymlink =>
          /\ stats' = [stats EXCEPT !.skipped = @ + 1]
          /\ ContinuesWithNextPath]_vars

C6_Witness ==
  /\ pc = "done"
  /\ \E e \in IoSet : /\ e.op = "lstat" /\ e.i = 1 /\ e.res = "symlink"
                      /\ e.target = outputFile
  /\ AppendedIdx = {2}
  /\ stats = [processed |-> 1, skipped |-> 1]

(***************************************************************************)
(* C8: the claim as stated.  No content read targets the output file, and  *)
(* no file section carries what the output file held when it was read.     *)
(***************************************************************************)
C8_NoReadBack ==
  /\ \A e \in IoSet : e.op = "read" => e.target # outputFile
  /\ \A n \in 1..Len(Sections) :
       \A m \in 1..Len(Sections[n].body) :
         Sections[n].body[m].kind \notin {"header", "file", "summary"}

(***************************************************************************)
(* C9: once git ls-files has answered, no per-file outcome ends the run:   *)
(* every position of the list is visited exactly once, in order, the run   *)
(* reaches Done, the summary is its last write, and nothing changes after  *)
(* Done.                                                                   *)
(***************************************************************************)
LstatCount(i) == Cardinality({ k \in 1..Len(io) : io[k].op = "lstat" /\ io[k].i = i })

\* the position of the last write of the run
LastWrite ==
  LET w == { k \in 1..Len(io) : io[k].op = "write" }
  IN CHOOSE k \in w : \A j \in w : j <= k

C9_EveryPathOnce ==
  ListingOk =>
    /\ pc \notin {"uncaught", "exited"}
    /\ exitCode \in {-1, 0}
    /\ \A i \in 1..Len(files) :
         LstatCount(i) = (IF i <= Visited \/ (i = idx /\ pc # "lstat") THEN 1 ELSE 0)
    /\ \A i \in 1..Visited : Outcomes[i].path = files[i]
    /\ Len(Outcomes) = Visited
    /\ pc = "done" =>
         /\ Visited = Len(files)
         /\ exitCode = 0
         /\ sink.blocks[Len(sink.blocks)] = summary(stats)
         /\ io[LastWrite].i = 0
         /\ LastWrite = Len(io)
         /\ ~ ENABLED Next

IsTrimOf(t, s) ==
  /\ \E a \in 1..(Len(s) + 1) : \E b \in 0..Len(s) :
       /\ t = SubSeq(s, a, b)
       /\ \A k \in 1..Len(s) : (k < a \/ k > b) => s[k] \in Whitespace
  /\ t # <<>> => (t[1] \notin Whitespace /\ t[Len(t)] \notin Whitespace)

\* getRepoInfo has returned: generate() is past line 143 (a run that ended
\* uncaught in getRepoInfo itself has written nothing)
InfoReturned ==
  \/ pc \notin {"checkGitRepo", "getRepoInfo", "exited", "uncaught"}
  \/ pc = "uncaught" /\ \E e \in IoSet : e.op = "write"

C10_Attribution ==
  /\ (rootCmd.st = "idle") <=> (branchCmd.st = "idle")
  /\ pc = "getRepoInfo" => (rootCmd.st # "idle" /\ info = [root |-> <<>>, branch |-> <<>>])
  /\ (\E e \in IoSet : e.op = "write") =>
       (rootCmd.st = "resolved" /\ branchCmd.st = "resolved")
  /\ InfoReturned =>
       /\ rootCmd.st = "resolved" /\ branchCmd.st = "resolved"
       /\ IsTrimOf(info.root, rootCmd.stdout)
       /\ IsTrimOf(info.branch, branchCmd.stdout)
       /\ repoRoot = info.root
       /\ pc # "writeHeader" =>
            /\ sink.blocks[1].root = info.root
            /\ sink.blocks[1].branch = info.branch

\* the branch query completed before the root query
C10_Witness ==
  /\ pc = "done"
  /\ io[2].op = "git branch --show-current"
  /\ io[3].op = "git rev-parse --show-toplevel"
  /\ rootCmd.stdout = <<" ", "/", "r", "\n">>
  /\ info = [root |-> <<"/", "r">>, branch |-> <<"m">>]

====
